---- MODULE Spec2Model ----
(***************************************************************************)
(* JSON-RPC 2.0 message types (Request, Notification, Response) and their  *)
(* serde encodings.  A wire payload is a JSON object: an ordered sequence  *)
(* of members.  In-memory values are records; encode and decode are        *)
(* operators computed the way the Serialize impls and the derived          *)
(* Deserialize impls compute them.                                         *)
(***************************************************************************)
EXTENDS Integers, Sequences, FiniteSets, TLC

VARIABLES phase, value, ty, wire, from, decoded, target, prior

vars == <<phase, value, ty, wire, from, decoded, target, prior>>

----------------------------------------------------------------------------
(* Bounds of the model *)

MaxLen == 2
MaxId == 1

----------------------------------------------------------------------------
(* JSON values.  Every value is a record of the same shape; arrays and     *)
(* objects keep their elements/members, in order, in items.                *)

Null == [k |-> "null", n |-> 0, s |-> "", items |-> <<>>]
Num(i) == [k |-> "num", n |-> i, s |-> "", items |-> <<>>]
Str(x) == [k |-> "str", n |-> 0, s |-> x, items |-> <<>>]
Member(key, val) == [key |-> key, val |-> val]
Arr(vals) == [k |-> "arr", n |-> 0, s |-> "",
              items |-> [i \in 1..Len(vals) |-> Member("", vals[i])]]
Obj(members) == [k |-> "obj", n |-> 0, s |-> "", items |-> members]

Keys(j) == [i \in 1..Len(j.items) |-> j.items[i].key]
Has(j, key) == \E i \in 1..Len(j.items) : j.items[i].key = key
Count(j, key) == Cardinality({i \in 1..Len(j.items) : j.items[i].key = key})
First(j, key) ==
  CHOOSE i \in 1..Len(j.items) :
    /\ j.items[i].key = key
    /\ \A h \in 1..(i - 1) : j.items[h].key # key
Get(j, key) == j.items[First(j, key)].val

----------------------------------------------------------------------------
(* The payload, result and error-data types the tests instantiate:         *)
(* (), i32, Vec<i32> and test_utils::Params.                               *)

Types == {"Unit", "Int", "Vec", "Params"}

Unit == [t |-> "Unit", n |-> 0, xs |-> <<>>]
I32(i) == [t |-> "Int", n |-> i, xs |-> <<>>]
Vec(xs) == [t |-> "Vec", n |-> 0, xs |-> xs]
Params(p0, p1) == [t |-> "Params", n |-> 0, xs |-> <<p0, p1>>]

(* Unsigned fields reject negative numbers.  The values of the model stay  *)
(* far below the upper ends of u32, i32, i64 and u64.                      *)
IsU32(i) == i >= 0
IsU64(i) == i >= 0

SerializeT(v) ==
  CASE v.t = "Unit" -> Null
    [] v.t = "Int" -> Num(v.n)
    [] v.t = "Vec" -> Arr([i \in 1..Len(v.xs) |-> Num(v.xs[i])])
    [] v.t = "Params" -> Obj(<<Member("p0", Num(v.xs[1])), Member("p1", Num(v.xs[2]))>>)

(* Option<u64> and Option<D> *)
None == [some |-> FALSE, n |-> 0]
Some(i) == [some |-> TRUE, n |-> i]
NoData == [some |-> FALSE, v |-> Unit]
SomeData(d) == [some |-> TRUE, v |-> d]

SerializeId(id) == IF id.some THEN Num(id.n) ELSE Null

----------------------------------------------------------------------------
(* lib.rs *)

(* The version constant of JSON-RPC 1.0 in place of 2.0. *)
JSONRPC_V1 == "1.0"

JSONRPC_V2 == "2.0"

SerializeField(state, key, val) == Append(state, Member(key, val))

----------------------------------------------------------------------------
(* In-memory messages.  One record shape for the three types; the fields a *)
(* type does not have hold fixed fillers.                                  *)

NoError == [code |-> 0, message |-> "", data |-> NoData]
ResponseError(code, message, data) == [code |-> code, message |-> message, data |-> data]
Result(r) == [variant |-> "Result", r |-> r, e |-> NoError]
Error(e) == [variant |-> "Error", r |-> Unit, e |-> e]
NoContent == [variant |-> "", r |-> Unit, e |-> NoError]

NoValue == [kind |-> "", method |-> "", params |-> Unit, content |-> NoContent, id |-> None]

RequestNew(method, params, id) ==
  [kind |-> "Request", method |-> method, params |-> params, content |-> NoContent, id |-> id]

NotificationNew(method, params) ==
  [kind |-> "Notification", method |-> method, params |-> params, content |-> NoContent, id |-> None]

ResponseNew(content, id) ==
  [kind |-> "Response", method |-> "", params |-> Unit, content |-> content, id |-> id]

----------------------------------------------------------------------------
(* Encoders *)

RequestSerialize(v) ==
  LET s0 == <<>>
      s1 == SerializeField(s0, "jsonrpc", Str(JSONRPC_V2))
      s2 == SerializeField(s1, "method", Str(v.method))
      s3 == SerializeField(s2, "params", SerializeT(v.params))
      s4 == SerializeField(s3, "id", SerializeId(v.id))
  IN  Obj(s4)

(* Notification encoded with the four fields of Request. *)
NotificationSerializeWithId(v) ==
  LET s0 == <<>>
      s1 == SerializeField(s0, "jsonrpc", Str(JSONRPC_V2))
      s2 == SerializeField(s1, "method", Str(v.method))
      s3 == SerializeField(s2, "params", SerializeT(v.params))
      s4 == SerializeField(s3, "id", SerializeId(v.id))
  IN  Obj(s4)

NotificationSerialize(v) ==
  LET s0 == <<>>
      s1 == SerializeField(s0, "jsonrpc", Str(JSONRPC_V2))
      s2 == SerializeField(s1, "method", Str(v.method))
      s3 == SerializeField(s2, "params", SerializeT(v.params))
  IN  Obj(s3)

(* ResponseError encoded without skip_serializing_if: data is always there. *)
ResponseErrorSerializeNullData(e) ==
  LET s0 == <<>>
      s1 == SerializeField(s0, "code", Num(e.code))
      s2 == SerializeField(s1, "message", Str(e.message))
      s3 == SerializeField(s2, "data", IF e.data.some THEN SerializeT(e.data.v) ELSE Null)
  IN  Obj(s3)

ResponseErrorSerialize(e) ==
  LET s0 == <<>>
      s1 == SerializeField(s0, "code", Num(e.code))
      s2 == SerializeField(s1, "message", Str(e.message))
      s3 == IF e.data.some THEN SerializeField(s2, "data", SerializeT(e.data.v)) ELSE s2
  IN  Obj(s3)

(* Response encoded field by field as declared, the content not flattened. *)
ResponseSerializeNested(v) ==
  LET s0 == <<>>
      s1 == SerializeField(s0, "jsonrpc", Str(JSONRPC_V2))
      c == IF v.content.variant = "Result"
             THEN <<Member("result", SerializeT(v.content.r))>>
             ELSE <<Member("error", ResponseErrorSerialize(v.content.e))>>
      s2 == SerializeField(s1, "content", Obj(c))
      s3 == SerializeField(s2, "id", SerializeId(v.id))
  IN  Obj(s3)

ResponseSerialize(v) ==
  LET s0 == <<>>
      s1 == SerializeField(s0, "jsonrpc", Str(JSONRPC_V2))
      s2 == IF v.content.variant = "Result"
              THEN SerializeField(s1, "result", SerializeT(v.content.r))
              ELSE SerializeField(s1, "error", ResponseErrorSerialize(v.content.e))
      s3 == SerializeField(s2, "id", SerializeId(v.id))
  IN  Obj(s3)

----------------------------------------------------------------------------
(* Decoders.  Each returns [ok, v]; ok = FALSE is serde's Err.             *)

FailT == [ok |-> FALSE, v |-> Unit]
OkT(v) == [ok |-> TRUE, v |-> v]

AllNum(j) == \A i \in 1..Len(j.items) : j.items[i].val.k = "num"

(* Deserialize for (), i32, Vec<i32> and the derived impl of Params, which *)
(* visits a map (unknown keys ignored) or a sequence of exactly two.       *)
DeserializeT(T, j) ==
  CASE T = "Unit" -> IF j.k = "null" THEN OkT(Unit) ELSE FailT
    [] T = "Int" -> IF j.k = "num" THEN OkT(I32(j.n)) ELSE FailT
    [] T = "Vec" ->
         IF j.k = "arr" /\ AllNum(j)
           THEN OkT(Vec([i \in 1..Len(j.items) |-> j.items[i].val.n]))
           ELSE FailT
    [] T = "Params" ->
         IF j.k = "obj"
           THEN IF /\ Has(j, "p0") /\ Get(j, "p0").k = "num" /\ IsU32(Get(j, "p0").n)
                   /\ Has(j, "p1") /\ Get(j, "p1").k = "num" /\ IsU32(Get(j, "p1").n)
                  THEN OkT(Params(Get(j, "p0").n, Get(j, "p1").n))
                  ELSE FailT
           ELSE IF /\ j.k = "arr" /\ Len(j.items) = 2 /\ AllNum(j)
                   /\ \A i \in 1..2 : IsU32(j.items[i].val.n)
                  THEN OkT(Params(j.items[1].val.n, j.items[2].val.n))
                  ELSE FailT

(* A String field: the member must be there and be a string. *)
DeserializeString(j, key) ==
  IF Has(j, key) /\ Get(j, key).k = "str"
    THEN [ok |-> TRUE, v |-> Get(j, key).s]
    ELSE [ok |-> FALSE, v |-> ""]

(* A field of the generic type: the member must be there. *)
DeserializeField(T, j, key) ==
  IF Has(j, key) THEN DeserializeT(T, Get(j, key)) ELSE FailT

(* An Option<u64> value: null is None. *)
DeserializeOptionU64Value(val) ==
  CASE val.k = "null" -> [ok |-> TRUE, v |-> None]
    [] val.k = "num" /\ IsU64(val.n) -> [ok |-> TRUE, v |-> Some(val.n)]
    [] OTHER -> [ok |-> FALSE, v |-> None]

(* An Option<u64> field: a missing member is None. *)
DeserializeOptionU64(j, key) ==
  IF Has(j, key) THEN DeserializeOptionU64Value(Get(j, key))
                 ELSE [ok |-> TRUE, v |-> None]

(* An Option<D> value: null is None whatever D is, anything else must      *)
(* decode as D.                                                            *)
DeserializeOptionDValue(D, val) ==
  IF val.k = "null"
    THEN [ok |-> TRUE, v |-> NoData]
    ELSE LET d == DeserializeT(D, val)
         IN  IF d.ok THEN [ok |-> TRUE, v |-> SomeData(d.v)]
                     ELSE [ok |-> FALSE, v |-> NoData]

DeserializeOptionD(D, j, key) ==
  IF Has(j, key) THEN DeserializeOptionDValue(D, Get(j, key))
                 ELSE [ok |-> TRUE, v |-> NoData]

FailError == [ok |-> FALSE, v |-> NoError]

(* Derived Deserialize of ResponseError<D>: a map with code, message and   *)
(* optionally data, or a sequence of exactly the three fields.             *)
ResponseErrorDeserialize(D, j) ==
  IF j.k = "obj"
    THEN LET m == DeserializeString(j, "message")
             d == DeserializeOptionD(D, j, "data")
         IN  IF Has(j, "code") /\ Get(j, "code").k = "num" /\ m.ok /\ d.ok
               THEN [ok |-> TRUE, v |-> ResponseError(Get(j, "code").n, m.v, d.v)]
               ELSE FailError
    ELSE IF j.k = "arr" /\ Len(j.items) = 3
      THEN LET c == j.items[1].val
               m == j.items[2].val
               d == DeserializeOptionDValue(D, j.items[3].val)
           IN  IF c.k = "num" /\ m.k = "str" /\ d.ok
                 THEN [ok |-> TRUE, v |-> ResponseError(c.n, m.s, d.v)]
                 ELSE FailError
      ELSE FailError

VARIANTS == {"result", "error"}

FailContent == [ok |-> FALSE, v |-> NoContent]

(* ResponseContent decoding that falls back to Result of a null value when  *)
(* no member names a variant.                                              *)
ResponseContentDeserializeDefaulting(R, E, collect) ==
  LET named == {h \in 1..Len(collect) : collect[h].key \in VARIANTS}
  IN  IF named = {}
        THEN LET r == DeserializeT(R, Null)
             IN  IF r.ok THEN [ok |-> TRUE, v |-> Result(r.v)] ELSE FailContent
        ELSE LET entry == collect[CHOOSE h \in named : \A g \in named : h <= g]
             IN  IF entry.key = "result"
                   THEN LET r == DeserializeT(R, entry.val)
                        IN  IF r.ok THEN [ok |-> TRUE, v |-> Result(r.v)] ELSE FailContent
                   ELSE LET e == ResponseErrorDeserialize(E, entry.val)
                        IN  IF e.ok THEN [ok |-> TRUE, v |-> Error(e.v)] ELSE FailContent

(* Derived Deserialize of ResponseContent<R, E> reached through            *)
(* #[serde(flatten)]: the buffered members are scanned in order and the    *)
(* first one whose key names a variant is decoded as that variant.         *)
ResponseContentDeserialize(R, E, collect) ==
  IF \A i \in 1..Len(collect) : collect[i].key \notin VARIANTS
    THEN FailContent
    ELSE LET i == CHOOSE h \in 1..Len(collect) :
                    /\ collect[h].key \in VARIANTS
                    /\ \A g \in 1..(h - 1) : collect[g].key \notin VARIANTS
             entry == collect[i]
         IN  IF entry.key = "result"
               THEN LET r == DeserializeT(R, entry.val)
                    IN  IF r.ok THEN [ok |-> TRUE, v |-> Result(r.v)] ELSE FailContent
               ELSE LET e == ResponseErrorDeserialize(E, entry.val)
                    IN  IF e.ok THEN [ok |-> TRUE, v |-> Error(e.v)] ELSE FailContent

Fail == [ok |-> FALSE, v |-> NoValue]
Ok(v) == [ok |-> TRUE, v |-> v]

(* Request decoding that rejects a jsonrpc member other than "2.0". *)
RequestDeserializeStrict(P, j) ==
  LET m == DeserializeString(j, "method")
      p == DeserializeField(P, j, "params")
      i == DeserializeOptionU64(j, "id")
      tagged == Has(j, "jsonrpc") /\ Get(j, "jsonrpc") = Str(JSONRPC_V2)
  IN  IF j.k = "obj" /\ tagged /\ m.ok /\ p.ok /\ i.ok
        THEN Ok(RequestNew(m.v, p.v, i.v))
        ELSE Fail

RequestDeserialize(P, j) ==
  LET m == DeserializeString(j, "method")
      p == DeserializeField(P, j, "params")
      i == DeserializeOptionU64(j, "id")
  IN  IF j.k = "obj" /\ m.ok /\ p.ok /\ i.ok
        THEN Ok(RequestNew(m.v, p.v, i.v))
        ELSE Fail

(* Notification decoding that rejects a payload carrying an id member. *)
NotificationDeserializeDenyId(P, j) ==
  LET m == DeserializeString(j, "method")
      p == DeserializeField(P, j, "params")
  IN  IF j.k = "obj" /\ ~Has(j, "id") /\ m.ok /\ p.ok
        THEN Ok(NotificationNew(m.v, p.v))
        ELSE Fail

NotificationDeserialize(P, j) ==
  LET m == DeserializeString(j, "method")
      p == DeserializeField(P, j, "params")
  IN  IF j.k = "obj" /\ m.ok /\ p.ok
        THEN Ok(NotificationNew(m.v, p.v))
        ELSE Fail

ResponseDeserialize(R, E, j) ==
  LET i == DeserializeOptionU64(j, "id")
      collect == SelectSeq(j.items, LAMBDA mem : mem.key # "id")
      c == ResponseContentDeserialize(R, E, collect)
  IN  IF j.k = "obj" /\ i.ok /\ c.ok
        THEN Ok(ResponseNew(c.v, i.v))
        ELSE Fail

----------------------------------------------------------------------------
(* Values the callers construct *)

Methods == {"method", "subtract"}
IntVals == {-1, 1}
FieldVals == {0, 1}
Codes == {-1, -32601}
Messages == {"message"}

Values(T) ==
  CASE T = "Unit" -> {Unit}
    [] T = "Int" -> {I32(i) : i \in IntVals}
    [] T = "Vec" -> {Vec(xs) : xs \in UNION {[1..n -> IntVals] : n \in 0..MaxLen}}
    [] T = "Params" -> {Params(a, b) : a \in FieldVals, b \in FieldVals}

Ids == {None} \cup {Some(i) : i \in 0..MaxId}

Datas(D) == {NoData} \cup {SomeData(d) : d \in Values(D)}

Contents(R, E) ==
  {Result(r) : r \in Values(R)}
    \cup {Error(ResponseError(c, m, d)) : c \in Codes, m \in Messages, d \in Datas(E)}

(* Payloads a peer sends: JSON objects with distinct keys, each member     *)
(* absent or one of a few values, in the encoders' member order or the     *)
(* reverse of it.                                                          *)

Reverse(seq) == [i \in 1..Len(seq) |-> seq[Len(seq) + 1 - i]]

Slot(key, vals) == {<<>>} \cup {<<Member(key, v)>> : v \in vals}

ErrorObjects ==
  { Obj(<<Member("code", Num(-1)), Member("message", Str("x"))>>),
    Obj(<<Member("code", Num(-1)), Member("message", Str("x")), Member("data", Null)>>),
    Obj(<<Member("code", Num(-1)), Member("message", Str("x")), Member("data", Num(7))>>),
    Arr(<<Num(-1), Str("x"), Num(7)>>) }

ParamsObject == Obj(<<Member("p0", Num(0)), Member("p1", Num(1))>>)

VersionTags == {Str(JSONRPC_V2), Str("1.0"), Num(2)}

NoTy == [P |-> "Unit", R |-> "Unit", E |-> "Unit"]
NoTarget == [kind |-> "", P |-> "Unit", R |-> "Unit", E |-> "Unit"]

SetJsonrpc(j, tag) ==
  Obj([i \in 1..Len(j.items) |->
         IF j.items[i].key = "jsonrpc" THEN Member("jsonrpc", tag) ELSE j.items[i]])

(* serde_json::from_value at the type the caller names *)
FromValue(t, j) ==
  CASE t.kind = "Request" -> RequestDeserialize(t.P, j)
    [] t.kind = "Notification" -> NotificationDeserialize(t.P, j)
    [] t.kind = "Response" -> ResponseDeserialize(t.R, t.E, j)

----------------------------------------------------------------------------
(* The state machine: a value is built and encoded, or a payload arrives;  *)
(* the payload is decoded at a type the caller names; the peer may then    *)
(* send the same payload under another version tag.                        *)

Init ==
  /\ phase = "idle"
  /\ value = NoValue
  /\ ty = NoTy
  /\ wire = Obj(<<>>)
  /\ from = ""
  /\ decoded = Fail
  /\ target = NoTarget
  /\ prior = Fail

NewRequest ==
  /\ phase = "idle"
  /\ \E m \in Methods, P \in Types, id \in Ids :
       \E p \in Values(P) :
         /\ value' = RequestNew(m, p, id)
         /\ ty' = [P |-> P, R |-> "Unit", E |-> "Unit"]
  /\ phase' = "built"
  /\ UNCHANGED <<wire, from, decoded, target, prior>>

NewNotification ==
  /\ phase = "idle"
  /\ \E m \in Methods, P \in Types :
       \E p \in Values(P) :
         /\ value' = NotificationNew(m, p)
         /\ ty' = [P |-> P, R |-> "Unit", E |-> "Unit"]
  /\ phase' = "built"
  /\ UNCHANGED <<wire, from, decoded, target, prior>>

NewResponse ==
  /\ phase = "idle"
  /\ \E R \in Types, E \in Types, id \in Ids :
       \E c \in Contents(R, E) :
         /\ value' = ResponseNew(c, id)
         /\ ty' = [P |-> "Unit", R |-> R, E |-> E]
  /\ phase' = "built"
  /\ UNCHANGED <<wire, from, decoded, target, prior>>

EncodeRequest ==
  /\ phase = "built"
  /\ value.kind = "Request"
  /\ wire' = RequestSerialize(value)
  /\ from' = "encode"
  /\ phase' = "wire"
  /\ UNCHANGED <<value, ty, decoded, target, prior>>

EncodeNotification ==
  /\ phase = "built"
  /\ value.kind = "Notification"
  /\ wire' = NotificationSerialize(value)
  /\ from' = "encode"
  /\ phase' = "wire"
  /\ UNCHANGED <<value, ty, decoded, target, prior>>

EncodeResponse ==
  /\ phase = "built"
  /\ value.kind = "Response"
  /\ wire' = ResponseSerialize(value)
  /\ from' = "encode"
  /\ phase' = "wire"
  /\ UNCHANGED <<value, ty, decoded, target, prior>>

Receive ==
  /\ phase = "idle"
  /\ \E j \in Slot("jsonrpc", {Str(JSONRPC_V2), Str("1.0")}),
        m \in Slot("method", {Str("m"), Num(7)}),
        p \in Slot("params", {Null, Arr(<<Num(0), Num(1)>>), ParamsObject}),
        r \in Slot("result", {Null, Num(1)}),
        e \in Slot("error", ErrorObjects),
        i \in Slot("id", {Null, Num(1), Num(-1), Str("x")}),
        rev \in BOOLEAN :
       LET members == j \o m \o p \o r \o e \o i
       IN  wire' = Obj(IF rev THEN Reverse(members) ELSE members)
  /\ from' = "peer"
  /\ phase' = "wire"
  /\ UNCHANGED <<value, ty, decoded, target, prior>>

DecodeRequest ==
  /\ phase = "wire"
  /\ \E P \in Types :
       /\ target' = [kind |-> "Request", P |-> P, R |-> "Unit", E |-> "Unit"]
       /\ decoded' = RequestDeserialize(P, wire)
  /\ phase' = "decoded"
  /\ UNCHANGED <<value, ty, wire, from, prior>>

DecodeNotification ==
  /\ phase = "wire"
  /\ \E P \in Types :
       /\ target' = [kind |-> "Notification", P |-> P, R |-> "Unit", E |-> "Unit"]
       /\ decoded' = NotificationDeserialize(P, wire)
  /\ phase' = "decoded"
  /\ UNCHANGED <<value, ty, wire, from, prior>>

DecodeResponse ==
  /\ phase = "wire"
  /\ \E R \in Types, E \in Types :
       /\ target' = [kind |-> "Response", P |-> "Unit", R |-> R, E |-> E]
       /\ decoded' = ResponseDeserialize(R, E, wire)
  /\ phase' = "decoded"
  /\ UNCHANGED <<value, ty, wire, from, prior>>

Retag ==
  /\ phase = "decoded"
  /\ Has(wire, "jsonrpc")
  /\ \E tag \in VersionTags \ {Get(wire, "jsonrpc")} :
       /\ wire' = SetJsonrpc(wire, tag)
       /\ decoded' = FromValue(target, SetJsonrpc(wire, tag))
  /\ prior' = decoded
  /\ phase' = "retagged"
  /\ UNCHANGED <<value, ty, from, target>>

(* A dispatcher that has decoded the payload as a Request decodes the same  *)
(* payload as a Notification with the same params type.                    *)
Redecode ==
  /\ phase = "decoded"
  /\ target.kind = "Request"
  /\ target' = [target EXCEPT !.kind = "Notification"]
  /\ decoded' = NotificationDeserialize(target.P, wire)
  /\ prior' = decoded
  /\ phase' = "redecoded"
  /\ UNCHANGED <<value, ty, wire, from>>

Next ==
  \/ NewRequest
  \/ NewNotification
  \/ NewResponse
  \/ EncodeRequest
  \/ EncodeNotification
  \/ EncodeResponse
  \/ Receive
  \/ DecodeRequest
  \/ DecodeNotification
  \/ DecodeResponse
  \/ Retag
  \/ Redecode

Spec == Init /\ [][Next]_vars

TypeOK ==
  /\ phase \in {"idle", "built", "wire", "decoded", "retagged", "redecoded"}
  /\ from \in {"", "encode", "peer"}
  /\ decoded.ok \in BOOLEAN

----------------------------------------------------------------------------
(* Properties *)

Encoded(kind) == phase = "wire" /\ from = "encode" /\ value.kind = kind

SameType ==
  /\ target.kind = value.kind
  /\ target.P = ty.P
  /\ target.R = ty.R
  /\ target.E = ty.E

RoundTripped == phase = "decoded" /\ from = "encode" /\ SameType

(* C1: round-trip law.  Whenever a value of Request<T>, Notification<T> or *)
(* Response<R, E> has been encoded and the payload decoded at the value's  *)
(* own type, the decode succeeds and returns a value equal to the one      *)
(* encoded.                                                                *)
RoundTripLaw == RoundTripped => decoded.ok /\ decoded.v = value

(* C2: decoding a payload as Response fails whenever the payload has both  *)
(* a result member and an error member, in either order.                   *)
BothMembersFail ==
  (/\ phase = "decoded"
   /\ target.kind = "Response"
   /\ Has(wire, "result")
   /\ Has(wire, "error")) => ~decoded.ok

(* C3: decoding a payload as Response fails whenever the payload has       *)
(* neither a result member nor an error member.                            *)
NeitherMemberFails ==
  (/\ phase = "decoded"
   /\ target.kind = "Response"
   /\ ~Has(wire, "result")
   /\ ~Has(wire, "error")) => ~decoded.ok

NeitherMemberWitness ==
  /\ phase = "decoded"
  /\ target.kind = "Response"
  /\ ~Has(wire, "result")
  /\ ~Has(wire, "error")
  /\ Has(wire, "jsonrpc") /\ Get(wire, "jsonrpc") = Str("2.0")
  /\ Has(wire, "id") /\ Get(wire, "id") = Num(1)
  /\ ~decoded.ok

(* C4: an encoded Request has an id member if and only if the Request's id *)
(* is present, and then the member equals the id.                          *)
RequestIdIffPresent ==
  Encoded("Request") =>
    /\ Has(wire, "id") <=> value.id.some
    /\ value.id.some => Get(wire, "id") = Num(value.id.n)

(* C5: an encoded Notification has exactly the members jsonrpc, method,    *)
(* params, in that order, and so no id member.                             *)
NotificationMembers ==
  Encoded("Notification") =>
    /\ Keys(wire) = <<"jsonrpc", "method", "params">>
    /\ ~Has(wire, "id")

NotificationMembersWitness ==
  /\ Encoded("Notification")
  /\ Len(wire.items) = 3
  /\ Get(wire, "method") = Str("subtract")
  /\ Get(wire, "params").k = "arr"

(* C6: every encoded Request, Notification and Response has the member     *)
(* jsonrpc exactly once, as its first member, with the string value "2.0". *)
VersionTagFirst ==
  (phase = "wire" /\ from = "encode") =>
    /\ Count(wire, "jsonrpc") = 1
    /\ wire.items[1] = Member("jsonrpc", Str("2.0"))

VersionTagWitness ==
  /\ Encoded("Response")
  /\ value.content.variant = "Error"
  /\ ~value.id.some
  /\ wire.items[1].key = "jsonrpc"

(* C7: an encoded Response has exactly three members, jsonrpc, then result *)
(* or error according to the content's variant, then id; the id member is  *)
(* null when the Response's id is absent.                                  *)
ResponseMembers ==
  Encoded("Response") =>
    /\ Keys(wire) = <<"jsonrpc",
                      IF value.content.variant = "Result" THEN "result" ELSE "error",
                      "id">>
    /\ ~Has(wire, "content")
    /\ wire.items[3].val = IF value.id.some THEN Num(value.id.n) ELSE Null
    /\ value.content.variant = "Result" =>
         wire.items[2].val.k = CASE ty.R = "Unit" -> "null"
                                 [] ty.R = "Int" -> "num"
                                 [] ty.R = "Vec" -> "arr"
                                 [] ty.R = "Params" -> "obj"
    /\ value.content.variant = "Error" => Has(wire.items[2].val, "code")

ResponseMembersWitness ==
  /\ Encoded("Response")
  /\ value.content.variant = "Error"
  /\ ~value.id.some
  /\ Has(wire, "id")
  /\ Get(wire, "id") = Null

(* C8: an encoded ResponseError has the members code and message, followed *)
(* by data if and only if a data value was supplied; code is the value's   *)
(* code unchanged and data is the encoding of the supplied value.          *)
ErrorMembers ==
  (Encoded("Response") /\ value.content.variant = "Error") =>
    LET e == value.content.e
        j == Get(wire, "error")
    IN  /\ j.k = "obj"
        /\ Keys(j) = IF e.data.some THEN <<"code", "message", "data">>
                                    ELSE <<"code", "message">>
        /\ Get(j, "code") = Num(e.code)
        /\ Get(j, "message") = Str(e.message)
        /\ (e.data.some /\ e.data.v.t = "Int") => Get(j, "data") = Num(e.data.v.n)
        /\ (e.data.some /\ e.data.v.t = "Unit") => Get(j, "data") = Null
        /\ (e.data.some /\ e.data.v.t = "Vec") =>
             /\ Get(j, "data").k = "arr"
             /\ Len(Get(j, "data").items) = Len(e.data.v.xs)
        /\ (e.data.some /\ e.data.v.t = "Params") =>
             Keys(Get(j, "data")) = <<"p0", "p1">>

ErrorMembersWitness ==
  /\ Encoded("Response")
  /\ value.content.variant = "Error"
  /\ ~value.content.e.data.some
  /\ value.content.e.code = -32601
  /\ ~Has(Get(wire, "error"), "data")

====
